---------------------------- MODULE Spec2Model ----------------------------
(***************************************************************************)
(* A model of the federated-learning simulator in python/vanilla-fl/src:   *)
(*   utils.py     sample_noniid (the non-IID partitioner) and              *)
(*                aggregate_weights (the aggregator),                      *)
(*   models.py    CNNMnist.weights_to_vector / vector_to_weights /         *)
(*                zero_out_weights (the parameter codec),                  *)
(*   federated.py main (the round loop).                                   *)
(*                                                                         *)
(* Numbers.  Tensor entries are floats in the program; here they are exact *)
(* rationals <<numerator, denominator>> in lowest terms, so that the       *)
(* division of the aggregator is a real division and not the identity.     *)
(* Floating-point rounding is not modelled.                                *)
(*                                                                         *)
(* Indices.  Dataset indices and shard ids are 0-based as in the program;  *)
(* TLA+ sequences are 1-based, so the array element the program calls      *)
(* a[j] is a[j+1] here.                                                    *)
(***************************************************************************)
EXTENDS Integers, Sequences, FiniteSets, TLC

(***************************************************************************)
(* Bounds of the model                                                     *)
(***************************************************************************)
MaxClients == 4
MaxShards == 3
MaxImgs == 2
MaxShardsPerClient == 2
MaxData == 4

\* label values of the dataset (MNIST has ten; two are enough to have ties
\* and label runs)
Labels == {0, 1}

VARIABLES
    pc,                 \* where the run is
    err,                \* the exception that ended the run, "" when none
    num_clients, num_shards, num_imgs, shards_per_client,
    dataset,            \* the labels of the dataset, dataset[j+1] = targets[j]
    idxs,               \* utils.py:71-87, the index array
    sorted_idxs,        \* the value idxs had at utils.py:84, before the shuffle
    idx_shard,          \* utils.py:60/92, the pool of shard ids not yet given out
    dict_users,         \* utils.py:61, client id -> array of dataset indices
    i,                  \* utils.py:90, the client being served
    client_fraction,    \* CLIENT_FRACTION, a rational <<p, q>>
    num_rounds,         \* NUM_ROUNDS
    epochs_per_client,  \* EPOCHS_PER_CLIENT
    global_model,       \* federated.py:70, the parameters of global_model
    global_weights,     \* federated.py:83/142, the state the round works with
    round_num,          \* federated.py:79
    sampled_clients,    \* federated.py:91-92
    ci,                 \* position of the client loop in sampled_clients
    local_weights,      \* federated.py:85, the vectors collected this round
    local_losses,       \* federated.py:87, the losses collected this round
    local_model,        \* federated.py:96, the parameters of local_model
    round_avg_losses,   \* federated.py:77
    params,             \* the parameters of a model, each a view of a storage
    heap,               \* storage id -> the entries of that tensor storage
    parameters_vector,  \* the storage of the vector weights_to_vector gave, 0 if none
    last_op,            \* the last codec call and whether it returned
    n_ops               \* the number of codec calls made

partVars == <<num_clients, num_shards, num_imgs, shards_per_client, dataset,
              idxs, sorted_idxs, idx_shard, dict_users, i>>

fedVars == <<client_fraction, num_rounds, epochs_per_client, global_model,
             global_weights, round_num, sampled_clients, ci, local_weights,
             local_losses, local_model, round_avg_losses>>

codecVars == <<params, heap, parameters_vector, last_op, n_ops>>

vars == <<pc, err, partVars, fedVars, codecVars>>

(***************************************************************************)
(* Helpers                                                                 *)
(***************************************************************************)
Range(s) == {s[j] : j \in DOMAIN s}

\* the arrays of length n that hold every element of 0..n-1 exactly once
Permutations0(n) ==
    {p \in [1..n -> 0..(n - 1)] : \A a, b \in 1..n : p[a] = p[b] => a = b}

\* the enumerations of a finite set, each element once
Enumerations(S) ==
    {q \in [1..Cardinality(S) -> S] : \A a, b \in 1..Cardinality(S) : q[a] = q[b] => a = b}

\* a[lo:hi] of Python and torch: positions lo..hi-1, clamped to the array
Slice(a, lo, hi) ==
    LET l == IF lo > Len(a) THEN Len(a) ELSE lo
        h == IF hi > Len(a) THEN Len(a) ELSE hi
    IN  IF h <= l THEN << >> ELSE [j \in 1..(h - l) |-> a[l + j]]

(***************************************************************************)
(* utils.py: sample_noniid                                                 *)
(***************************************************************************)
total_imgs == num_shards * num_imgs

\* utils.py:82-84.  idxs_labels[:, idxs_labels[1, :].argsort()][0, :]: the
\* indices 0..total_imgs-1 in nondecreasing label order.  argsort() uses
\* numpy's default kind (quicksort), which is not stable, so the order among
\* equal labels is any order.
LabelSorted(labels, n) ==
    {p \in Permutations0(n) :
        \A a, b \in 1..n : a < b => labels[p[a] + 1] <= labels[p[b] + 1]}

\* utils.py:87.  np.random.shuffle(idxs) permutes the whole array in place.
Shuffled(a) ==
    {[j \in 1..Len(a) |-> a[p[j] + 1]] : p \in Permutations0(Len(a))}

\* variant: the slice ends one position early
ShardSliceShort(a, rand) == Slice(a, rand * num_imgs, (rand + 1) * num_imgs - 1)

\* utils.py:95.  idxs[rand * num_imgs:(rand + 1) * num_imgs]
ShardSlice(a, rand) == Slice(a, rand * num_imgs, (rand + 1) * num_imgs)

\* utils.py:93-95.  The shards of rand_set appended to a client's array, in
\* the iteration order `order` of the set.
RECURSIVE Concatenate(_, _, _)
Concatenate(acc, a, order) ==
    IF order = << >> THEN acc
    ELSE Concatenate(acc \o ShardSlice(a, Head(order)), a, Tail(order))

\* variant: a pool that is too small gives what it has instead of raising
ChoicesClamped(pool, n) ==
    {S \in SUBSET pool :
        Cardinality(S) = IF n > Cardinality(pool) THEN Cardinality(pool) ELSE n}

\* utils.py:91.  rng.choice(idx_shard, shards_per_client, replace=False):
\* the sets of shards_per_client distinct shard ids of the pool; none when
\* the pool is too small, and the call raises ValueError.
Choices(pool, n) == {S \in SUBSET pool : Cardinality(S) = n}

\* variant: the drawn shards stay in the pool
RemainingPoolKept(pool, rand_set) == pool

\* utils.py:92.  idx_shard = list(set(idx_shard) - rand_set)
RemainingPool(pool, rand_set) == pool \ rand_set

\* utils.py:60-87: initialisation, the size check, the label sort and the
\* shuffle.  The dataset has a targets attribute (it is MNIST in main), so
\* line 79 is not reached.
SortAndShuffle ==
    /\ pc = "sample_noniid"
    /\ idx_shard' = 0..(num_shards - 1)
    /\ dict_users' = [c \in 0..(num_clients - 1) |-> << >>]
    /\ IF total_imgs > Len(dataset)
       THEN /\ pc' = "error"
            /\ err' = "ValueError: not enough samples"
            /\ UNCHANGED <<idxs, sorted_idxs, i>>
       ELSE /\ \E s \in LabelSorted(dataset, total_imgs) :
                 /\ sorted_idxs' = s
                 /\ idxs' \in Shuffled(s)
            /\ i' = 0
            /\ pc' = "assign"
            /\ err' = ""
    /\ UNCHANGED <<num_clients, num_shards, num_imgs, shards_per_client, dataset>>
    /\ UNCHANGED <<fedVars, codecVars>>

\* utils.py:90-95: one iteration of the client loop.
AssignClient ==
    /\ pc = "assign"
    /\ i < num_clients
    /\ IF Choices(idx_shard, shards_per_client) = {}
       THEN /\ pc' = "error"
            /\ err' = "ValueError: larger sample than population"
            /\ UNCHANGED <<idx_shard, dict_users, i>>
       ELSE /\ \E rand_set \in Choices(idx_shard, shards_per_client) :
                 /\ idx_shard' = RemainingPool(idx_shard, rand_set)
                 /\ \E order \in Enumerations(rand_set) :
                      dict_users' = [dict_users EXCEPT
                                        ![i] = Concatenate(@, idxs, order)]
            /\ i' = i + 1
            /\ UNCHANGED <<pc, err>>
    /\ UNCHANGED <<num_clients, num_shards, num_imgs, shards_per_client, dataset,
                   idxs, sorted_idxs>>
    /\ UNCHANGED <<fedVars, codecVars>>

\* utils.py:97-98: the loop is over and dict_users is returned; the locals of
\* the call are gone.
ReturnPartition ==
    /\ pc = "assign"
    /\ i = num_clients
    /\ pc' = "returned"
    /\ idxs' = << >>
    /\ sorted_idxs' = << >>
    /\ idx_shard' = {}
    /\ i' = 0
    /\ UNCHANGED <<err, num_clients, num_shards, num_imgs, shards_per_client,
                   dataset, dict_users>>
    /\ UNCHANGED <<fedVars, codecVars>>

(***************************************************************************)
(* Properties of sample_noniid                                             *)
(***************************************************************************)
Clients == 0..(num_clients - 1)

\* C1: when sample_noniid returns, the index sets of any two distinct
\* clients share no dataset index, whatever the shard draws and the shuffle
\* were.
C1_PartitionDisjoint ==
    pc = "returned" =>
        \A c1, c2 \in Clients :
            c1 # c2 => Range(dict_users[c1]) \cap Range(dict_users[c2]) = {}

\* two clients, each holding a shard of more than one index
C1_Witness ==
    /\ pc = "returned"
    /\ num_clients >= 2
    /\ shards_per_client >= 1
    /\ num_imgs >= 2
    /\ \A c \in Clients : Len(dict_users[c]) >= 2

\* C2 (as claimed): the shuffle changes only the order inside a shard: after
\* it every shard s holds the same set of indices as positions
\* s*num_imgs .. (s+1)*num_imgs-1 of a label-sorted array (whichever order
\* the sort gave to equal labels).
C2_ShufflePreservesShards ==
    pc = "assign" =>
        \E t \in LabelSorted(dataset, total_imgs) :
            \A s \in 0..(num_shards - 1) :
                Range(ShardSlice(idxs, s)) = Range(ShardSlice(t, s))

RECURSIVE TotalAssigned(_)
TotalAssigned(n) ==
    IF n = 0 THEN 0
    ELSE Cardinality(Range(dict_users[n - 1])) + TotalAssigned(n - 1)

\* C9: when sample_noniid returns, every client's index set has exactly
\* shards_per_client * num_imgs elements, all in 0..num_shards*num_imgs-1,
\* and the clients together hold at most num_shards * num_imgs indices.
C9_PartitionSize ==
    pc = "returned" =>
        /\ \A c \in Clients :
              /\ Len(dict_users[c]) = shards_per_client * num_imgs
              /\ Cardinality(Range(dict_users[c])) = shards_per_client * num_imgs
              /\ Range(dict_users[c]) \subseteq 0..(total_imgs - 1)
        /\ TotalAssigned(num_clients) <= total_imgs

\* a client holding two shards of two indices each
C9_Witness ==
    /\ pc = "returned"
    /\ shards_per_client = 2
    /\ num_imgs = 2
    /\ Len(dict_users[0]) = 4

Datasets == [1..MaxData -> Labels]

\* no codec call is being followed
CodecIdle ==
    /\ params = << >>
    /\ heap = << >>
    /\ parameters_vector = 0
    /\ last_op = [op |-> "none", arg |-> 0, ok |-> TRUE]
    /\ n_ops = 0

\* the round loop has not begun
FedIdle ==
    /\ client_fraction = <<0, 1>>
    /\ num_rounds = 0
    /\ epochs_per_client = 0
    /\ global_model = << >>
    /\ global_weights = << >>
    /\ round_num = 0
    /\ sampled_clients = << >>
    /\ ci = 0
    /\ local_weights = << >>
    /\ local_losses = << >>
    /\ local_model = << >>
    /\ round_avg_losses = << >>

InitPartition ==
    /\ pc = "sample_noniid"
    /\ err = ""
    /\ num_clients \in 1..MaxClients
    /\ num_shards \in 0..MaxShards
    /\ num_imgs \in 0..MaxImgs
    /\ shards_per_client \in 0..MaxShardsPerClient
    /\ dataset \in Datasets
    /\ idxs = << >>
    /\ sorted_idxs = << >>
    /\ idx_shard = {}
    /\ dict_users = << >>
    /\ i = 0
    /\ FedIdle
    /\ CodecIdle

NextPartition ==
    \/ SortAndShuffle
    \/ AssignClient
    \/ ReturnPartition

SpecPartition == InitPartition /\ [][NextPartition]_vars

(***************************************************************************)
(* Tensors.  An entry is a rational <<n, d>>, d > 0, in lowest terms.  A    *)
(* parameter held by value is [name, shape, data]: data lists the entries  *)
(* in the order view(-1) gives them.                                       *)
(***************************************************************************)
Abs(x) == IF x < 0 THEN -x ELSE x

RECURSIVE GCD(_, _)
GCD(a, b) == IF b = 0 THEN a ELSE GCD(b, a % b)

Rat(n, d) ==
    LET g == GCD(Abs(n), Abs(d))
        sgn == IF d < 0 THEN -1 ELSE 1
    IN  <<sgn * (n \div g), sgn * (d \div g)>>

R(n) == <<n, 1>>

RatAdd(x, y) == Rat(x[1] * y[2] + y[1] * x[2], x[2] * y[2])

RatDivInt(x, k) == Rat(x[1], x[2] * k)

\* param.numel(): the product of the dimensions of a shape
RECURSIVE Numel(_)
Numel(shape) == IF shape = << >> THEN 1 ELSE Head(shape) * Numel(Tail(shape))

\* the element count of a collection or template: the sum of its numel()s
RECURSIVE TotalNumel(_)
TotalNumel(ps) ==
    IF ps = << >> THEN 0 ELSE Numel(Head(ps).shape) + TotalNumel(Tail(ps))

\* variant: the parameters concatenated last to first
FlattenReversed(ps) ==
    LET RECURSIVE Rev(_)
        Rev(q) == IF q = << >> THEN << >> ELSE Rev(Tail(q)) \o Head(q).data
    IN  Rev(ps)

\* torch.cat([param.view(-1) for param in ...]): a new vector, the entries
\* of the parameters one after the other in declaration order
\* (models.py:33, utils.py:141)
Flatten(ps) ==
    LET RECURSIVE Cat(_)
        Cat(q) == IF q = << >> THEN << >> ELSE Head(q).data \o Cat(Tail(q))
    IN  Cat(ps)

(***************************************************************************)
(* utils.py: aggregate_weights                                             *)
(***************************************************************************)
\* utils.py:148.  updated_global_vector += local_vector, torch's in-place
\* addition: local_vector is broadcast to the shape of the left operand, so a
\* vector of length 1 is added to every entry; any other length that differs
\* raises RuntimeError.
Broadcastable(u, v) == Len(v) = Len(u) \/ Len(v) = 1

AddInPlace(u, v) ==
    [j \in 1..Len(u) |-> RatAdd(u[j], IF Len(v) = Len(u) THEN v[j] ELSE v[1])]

\* utils.py:147-148, the loop over local_weights
RECURSIVE Accumulate(_, _)
Accumulate(u, locals) ==
    IF locals = << >> THEN [ok |-> TRUE, vector |-> u]
    ELSE IF ~Broadcastable(u, Head(locals)) THEN [ok |-> FALSE, vector |-> u]
    ELSE Accumulate(AddInPlace(u, Head(locals)), Tail(locals))

\* variant: the mean over the local vectors only
DivisorWithoutGlobal(local_vectors) ==
    IF local_vectors = << >> THEN 1 ELSE Len(local_vectors)

\* utils.py:151.  len(local_weights) + 1
Divisor(local_vectors) == Len(local_vectors) + 1

\* utils.py:154-159: the vector cut back into the parameters' names and
\* shapes
RECURSIVE Unflatten(_, _, _)
Unflatten(ps, vector, pointer) ==
    IF ps = << >> THEN << >>
    ELSE LET param == Head(ps)
             numel == Numel(param.shape)
         IN  << [name |-> param.name, shape |-> param.shape,
                 data |-> Slice(vector, pointer, pointer + numel)] >>
             \o Unflatten(Tail(ps), vector, pointer + numel)

\* utils.py:132-161.  [ok |-> FALSE] stands for the RuntimeError of line 148.
AggregateWeights(existing, local_vectors) ==
    LET global_vector == Flatten(existing)
        summed == Accumulate(global_vector, local_vectors)
        updated_global_vector ==
            [j \in 1..Len(summed.vector) |->
                RatDivInt(summed.vector[j], Divisor(local_vectors))]
    IN  IF ~summed.ok THEN [ok |-> FALSE, weights |-> << >>]
        ELSE [ok |-> TRUE,
              weights |-> Unflatten(existing, updated_global_vector, 0)]


(***************************************************************************)
(* federated.py: main                                                      *)
(***************************************************************************)
MaxRounds == 2

\* the values of EPOCHS_PER_CLIENT and CLIENT_FRACTION the runs are given
\* (fractions as <<p, q>> in lowest terms)
EpochChoices == {0, 1}
Fractions == {<<0, 1>>, <<1, 2>>, <<1, 1>>}

P(name, shape) == [name |-> name, shape |-> shape]

\* The parameters of the model, name and shape in declaration order
\* (models.py:14-18 declares conv1, conv2, fc1 and fc2, a weight and a bias
\* each; a weight and a bias stand for them).
ModelTemplate == << P("weight", <<1, 1>>), P("bias", <<1>>) >>

\* entries of a freshly initialised model
GlobalValues == {R(1), R(2)}

\* What one run of the Local Trainer (federated.py:106-125) may give: step is
\* added to every entry of the state it started from, loss is its average
\* loss.
TrainOutcomes == {[step |-> R(2), loss |-> R(1)], [step |-> R(4), loss |-> R(2)]}

\* the collections of a template with entries from a set of values
CollectionsOf(template, values) ==
    LET Datas == UNION {[1..Numel(template[j].shape) -> values] :
                           j \in 1..Len(template)}
    IN  {[j \in 1..Len(template) |->
            [name |-> template[j].name, shape |-> template[j].shape, data |-> d[j]]] :
         d \in {e \in [1..Len(template) -> Datas] :
                   \A j \in 1..Len(template) : Len(e[j]) = Numel(template[j].shape)}}

\* federated.py:41, 70.  torch.manual_seed(RANDOM_SEED) fixes the entries
\* global_model = CNNMnist() starts with; they differ from parameter to
\* parameter.
SeededModel ==
    [j \in 1..Len(ModelTemplate) |->
        [name |-> ModelTemplate[j].name, shape |-> ModelTemplate[j].shape,
         data |-> [e \in 1..Numel(ModelTemplate[j].shape) |-> R(j)]]]

\* federated.py:57-62, the call of sample_noniid has returned;
\* federated.py:70-77, global_model = CNNMnist() with its seeded initial
\* entries, round_avg_losses = [].
ModelInit ==
    /\ pc = "returned"
    /\ global_model' = SeededModel
    /\ round_avg_losses' = << >>
    /\ round_num' = 0
    /\ pc' = "round"
    /\ UNCHANGED <<err, partVars, codecVars, client_fraction, num_rounds, epochs_per_client,
                   global_weights, sampled_clients, ci, local_weights, local_losses,
                   local_model>>

\* variant: without the max(1, ...)
SampleSizeNoFloor == (num_clients * client_fraction[1]) \div client_fraction[2]

\* federated.py:90.  max(1, int(NUM_CLIENTS * CLIENT_FRACTION))
SampleSize ==
    LET n == (num_clients * client_fraction[1]) \div client_fraction[2]
    IN  IF n < 1 THEN 1 ELSE n

\* federated.py:91.  random.sample(range(NUM_CLIENTS), n): the lists of n
\* distinct client ids, in any order; none when n > NUM_CLIENTS, and the call
\* raises ValueError.
Samples(n) ==
    {q \in [1..n -> 0..(num_clients - 1)] : \A a, b \in 1..n : q[a] = q[b] => a = b}

\* insertion of x into an ascending list
RECURSIVE Insert(_, _)
Insert(x, q) ==
    IF q = << >> THEN <<x>>
    ELSE IF x <= Head(q) THEN <<x>> \o q
    ELSE <<Head(q)>> \o Insert(x, Tail(q))

\* variant: the sample left in the order it was drawn
Unsorted(q) == q

\* federated.py:92.  sampled_clients.sort()
RECURSIVE Sort(_)
Sort(q) == IF q = << >> THEN << >> ELSE Insert(Head(q), Sort(Tail(q)))

\* federated.py:79-93: the head of a round.
RoundStart ==
    /\ pc = "round"
    /\ round_num < num_rounds
    /\ global_weights' = global_model
    /\ local_weights' = << >>
    /\ local_losses' = << >>
    /\ IF Samples(SampleSize) = {}
       THEN /\ pc' = "error"
            /\ err' = "ValueError: sample larger than population"
            /\ UNCHANGED <<sampled_clients, ci>>
       ELSE /\ \E sample \in Samples(SampleSize) : sampled_clients' = Sort(sample)
            /\ ci' = 1
            /\ pc' = IF SampleSize = 0 THEN "average" ELSE "train"
            /\ err' = ""
    /\ UNCHANGED <<partVars, codecVars, client_fraction, num_rounds, epochs_per_client,
                   global_model, round_num, local_model, round_avg_losses>>

\* federated.py:114-121.  The number of batch losses of one client: one per
\* batch of 64 and epoch, none when the client has no data or no epoch runs.
BatchLosses(client_indices) ==
    epochs_per_client * ((Len(client_indices) + 63) \div 64)

\* the Local Trainer: every entry of the state it started from, moved by step
Trained(start, step) ==
    [j \in 1..Len(start) |->
        [start[j] EXCEPT !.data = [e \in 1..Len(@) |-> RatAdd(@[e], step)]]]

\* variant: the state is not loaded, the model keeps its own entries
LoadStateDictSkipped(model, state_dict) == model

\* model.load_state_dict(state_dict) (federated.py:99, 145): the entries of
\* state_dict are copied into the model's parameters, which keep their names
\* and shapes
LoadStateDict(model, state_dict) ==
    [j \in 1..Len(model) |-> [model[j] EXCEPT !.data = state_dict[j].data]]

\* federated.py:95-99: the next sampled client.  local_model is a fresh
\* CNNMnist(), its initial entries the next ones the generator gives, loaded
\* with global_weights.
LoadLocalModel ==
    /\ pc = "train"
    /\ ci <= Len(sampled_clients)
    /\ \E fresh \in CollectionsOf(ModelTemplate, GlobalValues) :
         local_model' = LoadStateDict(fresh, global_weights)
    /\ pc' = "local"
    /\ UNCHANGED <<err, partVars, codecVars, client_fraction, num_rounds, epochs_per_client,
                   global_model, global_weights, round_num, sampled_clients, ci,
                   local_weights, local_losses, round_avg_losses>>

\* federated.py:101-134: local_model is trained on the client's subset, and
\* its vector and average loss are collected.
TrainClient ==
    /\ pc = "local"
    /\ LET client_id == sampled_clients[ci]
           client_indices == dict_users[client_id]
       IN  IF BatchLosses(client_indices) = 0
           THEN /\ pc' = "error"
                /\ err' = "ZeroDivisionError: no batch loss"
                /\ UNCHANGED <<local_weights, local_losses, local_model, ci>>
           ELSE /\ \E out \in TrainOutcomes :
                     /\ local_model' = Trained(local_model, out.step)
                     /\ local_losses' = Append(local_losses, out.loss)
                     /\ local_weights' =
                            Append(local_weights, Flatten(local_model'))
                /\ ci' = ci + 1
                /\ pc' = IF ci = Len(sampled_clients) THEN "average" ELSE "train"
                /\ err' = ""
    /\ UNCHANGED <<partVars, codecVars, client_fraction, num_rounds, epochs_per_client,
                   global_model, global_weights, round_num, sampled_clients,
                   round_avg_losses>>

RECURSIVE RatSum(_)
RatSum(q) == IF q = << >> THEN R(0) ELSE RatAdd(Head(q), RatSum(Tail(q)))

\* federated.py:136-139: the round's average loss.
RoundAverage ==
    /\ pc = "average"
    /\ IF local_losses = << >>
       THEN /\ pc' = "error"
            /\ err' = "ZeroDivisionError: no local loss"
            /\ UNCHANGED round_avg_losses
       ELSE /\ round_avg_losses' =
                   Append(round_avg_losses,
                          RatDivInt(RatSum(local_losses), Len(local_losses)))
            /\ pc' = "aggregate"
            /\ err' = ""
    /\ UNCHANGED <<partVars, codecVars, client_fraction, num_rounds, epochs_per_client,
                   global_model, global_weights, round_num, sampled_clients, ci,
                   local_weights, local_losses, local_model>>

\* federated.py:142-143.  global_weights = utils.aggregate_weights(
\* existing_global_weights=global_model.state_dict(), local_weights=...)
Aggregate ==
    /\ pc = "aggregate"
    /\ LET res == AggregateWeights(global_model, local_weights)
       IN  IF res.ok
           THEN /\ global_weights' = res.weights
                /\ pc' = "aggregated"
                /\ err' = ""
           ELSE /\ pc' = "error"
                /\ err' = "RuntimeError: size mismatch"
                /\ UNCHANGED global_weights
    /\ UNCHANGED <<partVars, codecVars, client_fraction, num_rounds, epochs_per_client,
                   global_model, round_num, sampled_clients, ci, local_weights,
                   local_losses, local_model, round_avg_losses>>

\* federated.py:145.  global_model.load_state_dict(global_weights) copies
\* the entries into the model's parameters; the next round begins.
LoadGlobal ==
    /\ pc = "aggregated"
    /\ global_model' = LoadStateDict(global_model, global_weights)
    /\ round_num' = round_num + 1
    /\ pc' = "round"
    /\ UNCHANGED <<err, partVars, codecVars, client_fraction, num_rounds, epochs_per_client,
                   global_weights, sampled_clients, ci, local_weights, local_losses,
                   local_model, round_avg_losses>>

\* federated.py:154 on: the rounds are over.
Finish ==
    /\ pc = "round"
    /\ round_num = num_rounds
    /\ pc' = "done"
    /\ UNCHANGED <<err, partVars, fedVars, codecVars>>

\* the labels of the training set main() loads (federated.py:46-49)
TrainDataset == [j \in 1..MaxData |-> (j - 1) % 2]

Init ==
    /\ pc = "sample_noniid"
    /\ err = ""
    /\ num_clients \in 1..MaxClients
    /\ num_shards \in 0..MaxShards
    /\ num_imgs \in 0..MaxImgs
    /\ shards_per_client \in 0..MaxShardsPerClient
    /\ dataset = TrainDataset
    /\ idxs = << >>
    /\ sorted_idxs = << >>
    /\ idx_shard = {}
    /\ dict_users = << >>
    /\ i = 0
    /\ client_fraction \in Fractions
    /\ num_rounds \in 0..MaxRounds
    /\ epochs_per_client \in EpochChoices
    /\ global_model = << >>
    /\ global_weights = << >>
    /\ round_num = 0
    /\ sampled_clients = << >>
    /\ ci = 0
    /\ local_weights = << >>
    /\ local_losses = << >>
    /\ local_model = << >>
    /\ round_avg_losses = << >>
    /\ CodecIdle

Next ==
    \/ SortAndShuffle
    \/ AssignClient
    \/ ReturnPartition
    \/ ModelInit
    \/ RoundStart
    \/ LoadLocalModel
    \/ TrainClient
    \/ RoundAverage
    \/ Aggregate
    \/ LoadGlobal
    \/ Finish

Spec == Init /\ [][Next]_vars

(***************************************************************************)
(* Properties of the run of main                                           *)
(***************************************************************************)
\* floor(num_clients * client_fraction), by its definition: the m with
\* m <= num_clients * p / q < m + 1
FloorOfProduct ==
    CHOOSE m \in 0..(num_clients * client_fraction[1]) :
        /\ m * client_fraction[2] <= num_clients * client_fraction[1]
        /\ num_clients * client_fraction[1] < (m + 1) * client_fraction[2]

RoundSampled == pc \in {"train", "local", "average", "aggregate", "aggregated"}

\* C8: in every round the sampled client list has exactly
\* max(1, floor(num_clients * client_fraction)) entries, all of them client
\* ids, in strictly ascending order (so all distinct), and at least one local
\* loss has been collected when the round average is computed.
C8_SampledClients ==
    /\ RoundSampled =>
          /\ Len(sampled_clients) = IF FloorOfProduct < 1 THEN 1 ELSE FloorOfProduct
          /\ \A a \in 1..Len(sampled_clients) :
                sampled_clients[a] \in 0..(num_clients - 1)
          /\ \A a, b \in 1..Len(sampled_clients) :
                a < b => sampled_clients[a] < sampled_clients[b]
    /\ (num_clients = 4 /\ client_fraction = <<1, 2>> /\ RoundSampled) =>
          Len(sampled_clients) = 2
    /\ pc = "average" => Len(local_losses) >= 1

\* three clients, fraction 1: all three were sampled and trained, and the
\* round average is about to be computed
C8_Witness ==
    /\ pc = "average"
    /\ num_clients = 3
    /\ client_fraction = <<1, 1>>
    /\ sampled_clients = <<0, 1, 2>>
    /\ Len(local_losses) = 3

InvalidPartitionParams ==
    \/ total_imgs > Len(dataset)
    \/ num_shards < num_clients * shards_per_client

\* C10: with invalid partition parameters (more shard images than samples, or
\* fewer shards than the clients need) sample_noniid never returns a
\* partition: the run is inside the call or has failed with its error, the
\* client loop of the call cannot complete, and the global model has not been
\* created and no client has been sampled or trained.
C10_InvalidParamsStopBeforeTraining ==
    InvalidPartitionParams =>
        /\ pc \in {"sample_noniid", "assign", "error"}
        /\ pc = "assign" => i < num_clients
        /\ pc = "error" => err \in {"ValueError: not enough samples",
                                    "ValueError: larger sample than population"}
        /\ pc # "error" => ENABLED Next
        /\ global_model = << >>
        /\ global_weights = << >>
        /\ round_num = 0
        /\ sampled_clients = << >>
        /\ local_weights = << >>
        /\ local_losses = << >>
        /\ local_model = << >>

\* the shard pool ran out after a client had been served
C10_Witness ==
    /\ pc = "error"
    /\ err = "ValueError: larger sample than population"
    /\ total_imgs <= Len(dataset)
    /\ i >= 1

\* the position in the flat vector of entry e of parameter j
OffsetOf(ps, j) == TotalNumel(SubSeq(ps, 1, j - 1))

\* the round is between its head and the call of aggregate_weights
InRound == pc \in {"train", "local", "average", "aggregate"}

\* the sum of entry j of the vectors
RECURSIVE RatSumAt(_, _)
RatSumAt(vectors, j) ==
    IF vectors = << >> THEN R(0) ELSE RatAdd(Head(vectors)[j], RatSumAt(Tail(vectors), j))

\* while a round is under way the state the clients are loaded from is the
\* global model's, and a client that has just been loaded holds it
ClientsStartFromGlobal ==
    /\ InRound => global_weights = global_model
    /\ pc = "local" => local_model = global_model

\* the aggregate of a round is the mean of the global model's entries, as
\* they were all through the round, and the vectors of all sampled clients
AggregateUsesGlobal ==
    pc = "aggregated" =>
        /\ Len(local_weights) = Len(sampled_clients)
        /\ \A j \in 1..Len(global_model) :
              \A e \in 1..Numel(global_model[j].shape) :
                  global_weights[j].data[e] =
                      RatDivInt(RatAdd(global_model[j].data[e],
                                       RatSumAt(local_weights,
                                                OffsetOf(global_model, j) + e)),
                                Len(local_weights) + 1)

\* no step of a round before the load of the aggregate changes the global
\* model, and loading and training a client leave global_weights alone
RoundKeepsGlobal ==
    /\ InRound => global_model' = global_model
    /\ pc \in {"train", "local"} => global_weights' = global_weights

\* the global model is given new entries only by the load of the aggregate,
\* after every sampled client's vector has been collected, and every round
\* ends with that load
GlobalReplacedOncePerRound ==
    /\ (global_model # << >> /\ global_model' # global_model) =>
          /\ pc = "aggregated"
          /\ Len(local_weights) = Len(sampled_clients)
          /\ round_num' = round_num + 1
    /\ round_num' # round_num =>
          /\ pc = "aggregated"
          /\ round_num' = round_num + 1
          /\ global_model' = global_weights

\* C12: within a round every sampled client starts local training from the
\* global state held at the start of the round; no client's training changes
\* the global state or the state the other clients start from; the global
\* state is replaced once per round, after the vectors of all sampled
\* clients have been collected, and the global term of that aggregation is
\* the round-start global state.
C12_RoundIsolation ==
    /\ [](ClientsStartFromGlobal /\ AggregateUsesGlobal)
    /\ [][RoundKeepsGlobal /\ GlobalReplacedOncePerRound]_vars

\* the second round has aggregated two clients that started from the same
\* state and trained to different vectors
C12_Witness ==
    /\ pc = "aggregated"
    /\ round_num = 1
    /\ Len(sampled_clients) = 2
    /\ local_weights[1] # local_weights[2]
    /\ global_weights # global_model

(***************************************************************************)
(* aggregate_weights on its own: the call of federated.py:142 with any     *)
(* global state and any list of local vectors.                             *)
(***************************************************************************)
MaxLocals == 2

\* the parameter templates the aggregator and the codec are run on
Templates ==
    { << P("weight", <<1>>) >>,
      << P("weight", <<2>>) >>,
      ModelTemplate,
      << P("weight", <<1, 2>>), P("bias", <<1>>) >> }

\* entries of the clients' vectors
LocalValues == {R(3), R(5)}

\* the element count of the largest template
MaxTemplateNumel ==
    CHOOSE m \in {TotalNumel(t) : t \in Templates} :
        \A t \in Templates : TotalNumel(t) <= m

\* the vector lengths tried: up to one more than the largest template
VectorLengths == 0..(MaxTemplateNumel + 1)

Vectors(values) == UNION {[1..n -> values] : n \in VectorLengths}

LocalVectorLists == UNION {[1..n -> Vectors(LocalValues)] : n \in 0..MaxLocals}

PartitionIdle ==
    /\ num_clients = 0
    /\ num_shards = 0
    /\ num_imgs = 0
    /\ shards_per_client = 0
    /\ dataset = << >>
    /\ idxs = << >>
    /\ sorted_idxs = << >>
    /\ idx_shard = {}
    /\ dict_users = << >>
    /\ i = 0

InitAggregate ==
    /\ pc = "aggregate"
    /\ err = ""
    /\ PartitionIdle
    /\ client_fraction = <<0, 1>>
    /\ num_rounds = 0
    /\ epochs_per_client = 0
    /\ global_model \in UNION {CollectionsOf(t, GlobalValues) : t \in Templates}
    /\ global_weights = global_model
    /\ round_num = 0
    /\ sampled_clients = << >>
    /\ ci = 0
    /\ local_weights \in LocalVectorLists
    /\ local_losses = << >>
    /\ local_model = << >>
    /\ round_avg_losses = << >>
    /\ CodecIdle

SpecAggregate == InitAggregate /\ [][Aggregate]_vars

\* the sum of the numerators of position j over the vectors of a list
RECURSIVE SumAt(_, _)
SumAt(vectors, j) ==
    IF vectors = << >> THEN 0 ELSE Head(vectors)[j][1] + SumAt(Tail(vectors), j)

AllSameLength ==
    \A k \in 1..Len(local_weights) : Len(local_weights[k]) = TotalNumel(global_model)

\* C3: with local vectors as long as the flattened global state G (integer
\* entries here), aggregate_weights returns the global parameters' names and
\* shapes in declaration order, and entry i of the result is
\* (G[i] + sum over k of L_k[i]) / (n + 1), n the number of local vectors.
C3_AggregateIsMeanWithGlobal ==
    (pc = "aggregated" /\ AllSameLength) =>
        /\ Len(global_weights) = Len(global_model)
        /\ \A j \in 1..Len(global_model) :
              /\ global_weights[j].name = global_model[j].name
              /\ global_weights[j].shape = global_model[j].shape
              /\ Len(global_weights[j].data) = Numel(global_model[j].shape)
              /\ \A e \in 1..Numel(global_model[j].shape) :
                    LET r == global_weights[j].data[e]
                        g == global_model[j].data[e]
                    IN  /\ r[2] > 0
                        /\ r[1] * (Len(local_weights) + 1) =
                              r[2] * (g[1] + SumAt(local_weights,
                                                   OffsetOf(global_model, j) + e))

\* G = [1,1] with locals [3,3] and [5,5] has given [3,3]
C3_Witness ==
    /\ pc = "aggregated"
    /\ Flatten(global_model) = <<R(1), R(1)>>
    /\ local_weights = << <<R(3), R(3)>>, <<R(5), R(5)>> >>
    /\ Flatten(global_weights) = <<R(3), R(3)>>

\* C7 (as claimed): aggregate_weights gives a result only when every local
\* vector is as long as the flattened global vector.
C7_MismatchedLengthFails ==
    pc = "aggregated" => AllSameLength

(***************************************************************************)
(* models.py: the parameter codec.  A tensor is a view of a storage: a     *)
(* parameter is [name, shape, store, off], its entries are the             *)
(* Numel(shape) entries of heap[store] from position off on.  Two tensors  *)
(* of one storage see each other's writes.                                 *)
(***************************************************************************)
MaxOps == 3

\* the entries of a parameter
DataOf(param, h) == Slice(h[param.store], param.off, param.off + Numel(param.shape))

\* the parameters by value
ValuesOf(ps, h) ==
    [j \in 1..Len(ps) |->
        [name |-> ps[j].name, shape |-> ps[j].shape, data |-> DataOf(ps[j], h)]]

\* a vector some caller builds, such as torch.tensor(json.load(f)) of
\* vector_conversions.py:42-43: entry j is 6 + j
InputVector(n) == [j \in 1..n |-> R(6 + j)]

\* models.py:31-33.  weights_to_vector: torch.cat gives a tensor with a
\* storage of its own.
WeightsToVector ==
    /\ pc = "codec"
    /\ n_ops < MaxOps
    /\ LET new == Len(heap) + 1
       IN  /\ heap' = Append(heap, Flatten(ValuesOf(params, heap)))
           /\ parameters_vector' = new
           /\ last_op' = [op |-> "weights_to_vector", arg |-> new, ok |-> TRUE]
    /\ n_ops' = n_ops + 1
    /\ UNCHANGED <<pc, err, partVars, fedVars, params>>

\* models.py:37-42, the loop of vector_to_weights over the parameters.
\* vector[pointer:pointer + numel] is cut to the vector's end, and view()
\* raises RuntimeError when the slice has not numel entries; the parameters
\* before that one have been given their slices already.  param.data becomes
\* a view of the vector's storage.
RECURSIVE LoadSlices(_, _, _, _, _)
LoadSlices(done, rest, store, len, pointer) ==
    IF rest = << >> THEN [ok |-> TRUE, params |-> done]
    ELSE LET param == Head(rest)
             numel == Numel(param.shape)
             hi == IF pointer + numel > len THEN len ELSE pointer + numel
             lo == IF pointer > len THEN len ELSE pointer
         IN  IF hi - lo # numel
             THEN [ok |-> FALSE, params |-> done \o rest]
             ELSE LoadSlices(Append(done, [param EXCEPT !.store = store, !.off = pointer]),
                             Tail(rest), store, len, pointer + numel)

\* models.py:35-42.  vector_to_weights(vector)
VectorToWeights(ps, h, store) == LoadSlices(<< >>, ps, store, Len(h[store]), 0)

\* vector_to_weights called with the vector weights_to_vector gave
LoadHeldVector ==
    /\ pc = "codec"
    /\ n_ops < MaxOps
    /\ parameters_vector # 0
    /\ LET res == VectorToWeights(params, heap, parameters_vector)
       IN  /\ params' = res.params
           /\ last_op' = [op |-> "vector_to_weights", arg |-> parameters_vector,
                          ok |-> res.ok]
    /\ n_ops' = n_ops + 1
    /\ UNCHANGED <<pc, err, partVars, fedVars, heap, parameters_vector>>

\* vector_to_weights called with a vector the caller built, of any length
\* up to one more than the largest template
LoadNewVector ==
    /\ pc = "codec"
    /\ n_ops < MaxOps
    /\ \E n \in VectorLengths :
         LET new == Len(heap) + 1
             h == Append(heap, InputVector(n))
             res == VectorToWeights(params, h, new)
         IN  /\ heap' = h
             /\ params' = res.params
             /\ last_op' = [op |-> "vector_to_weights", arg |-> new, ok |-> res.ok]
    /\ n_ops' = n_ops + 1
    /\ UNCHANGED <<pc, err, partVars, fedVars, parameters_vector>>

\* param.data.fill_(0) of one parameter: zeros written into its storage
Fill0(param, h) ==
    [h EXCEPT ![param.store] =
        [e \in 1..Len(@) |->
            IF param.off < e /\ e <= param.off + Numel(param.shape) THEN R(0) ELSE @[e]]]

RECURSIVE FillAll(_, _)
FillAll(ps, h) == IF ps = << >> THEN h ELSE FillAll(Tail(ps), Fill0(Head(ps), h))

\* models.py:44-46.  zero_out_weights
ZeroOutWeights ==
    /\ pc = "codec"
    /\ n_ops < MaxOps
    /\ heap' = FillAll(params, heap)
    /\ last_op' = [op |-> "zero_out_weights", arg |-> 0, ok |-> TRUE]
    /\ n_ops' = n_ops + 1
    /\ UNCHANGED <<pc, err, partVars, fedVars, params, parameters_vector>>

\* a model of some template, every parameter with a storage of its own
\* (models.py:11-18)
InitCodec ==
    /\ pc = "codec"
    /\ err = ""
    /\ PartitionIdle
    /\ FedIdle
    /\ \E t \in Templates :
         \E c \in CollectionsOf(t, GlobalValues) :
            /\ params = [j \in 1..Len(t) |->
                            [name |-> t[j].name, shape |-> t[j].shape,
                             store |-> j, off |-> 0]]
            /\ heap = [j \in 1..Len(t) |-> c[j].data]
    /\ parameters_vector = 0
    /\ last_op = [op |-> "none", arg |-> 0, ok |-> TRUE]
    /\ n_ops = 0

NextCodec ==
    \/ WeightsToVector
    \/ LoadHeldVector
    \/ LoadNewVector
    \/ ZeroOutWeights

SpecCodec == InitCodec /\ [][NextCodec]_vars

(***************************************************************************)
(* Properties of the codec                                                 *)
(***************************************************************************)
\* right after weights_to_vector: the vector has one entry per parameter
\* entry, and lists the parameters' entries in declaration order
VectorLayout ==
    last_op.op = "weights_to_vector" =>
        /\ Len(heap[parameters_vector]) = TotalNumel(params)
        /\ \A j \in 1..Len(params) :
              \A e \in 1..Numel(params[j].shape) :
                  heap[parameters_vector][OffsetOf(params, j) + e] =
                      DataOf(params[j], heap)[e]

\* a step that is vector_to_weights(C, v) with v = weights_to_vector(C)
\* returns, and leaves every parameter of C with its shape and entries
RoundTripStep ==
    ( /\ n_ops' = n_ops + 1
      /\ last_op'.op = "vector_to_weights"
      /\ last_op'.arg = parameters_vector
      /\ heap[parameters_vector] = Flatten(ValuesOf(params, heap)) ) =>
        /\ last_op'.ok
        /\ ValuesOf(params', heap') = ValuesOf(params, heap)

\* C4: weights_to_vector(C) has as many entries as C's parameters have
\* elements and lists their values in declaration order, and
\* vector_to_weights(C, weights_to_vector(C)) leaves every parameter of C with
\* its original shape and values.
C4_VectorRoundTrip == []VectorLayout /\ [][RoundTripStep]_vars

\* a model of two parameters has been flattened and loaded back from the
\* vector
C4_Witness ==
    /\ n_ops = 2
    /\ Len(params) = 2
    /\ TotalNumel(params) = 3
    /\ last_op = [op |-> "vector_to_weights", arg |-> parameters_vector, ok |-> TRUE]
    /\ \A j \in 1..Len(params) : params[j].store = parameters_vector

\* C5 (as claimed): vector_to_weights fails for every vector whose length
\* differs from the template's total element count, shorter or longer.
C5_WrongLengthFails ==
    ( /\ last_op.op = "vector_to_weights"
      /\ Len(heap[last_op.arg]) # TotalNumel(params) ) => ~last_op.ok

\* C6 (as claimed): a vector_to_weights call that fails leaves every
\* parameter of the collection with the values it had before the call.
C6_FailedLoadWritesNothing ==
    [][ ( /\ n_ops' = n_ops + 1
          /\ last_op'.op = "vector_to_weights"
          /\ ~last_op'.ok ) =>
            ValuesOf(params', heap') = ValuesOf(params, heap) ]_vars

\* C11 (as claimed): a vector obtained by weights_to_vector(C) is held
\* separately from C: no zero_out_weights(C) and no vector_to_weights(C, v)
\* call changes an entry of the held vector v, so v keeps C's original values
\* and a final vector_to_weights(C, v) restores them.
C11_HeldVectorKeepsOriginal ==
    [][ ( /\ parameters_vector # 0
          /\ parameters_vector' = parameters_vector
          /\ n_ops' = n_ops + 1
          /\ last_op'.op \in {"zero_out_weights", "vector_to_weights"} ) =>
            heap'[parameters_vector] = heap[parameters_vector] ]_vars

=============================================================================
